---- MODULE Spec2Model ----
(***************************************************************************)
(* The test-session workflow and the scoring rules of the book question    *)
(* generator.                                                              *)
(*                                                                         *)
(*  - SpecApp  : the Streamlit wizard of app.py (configure page, take-test *)
(*               page, finish_test, results page) over st.session_state.   *)
(*  - SpecEval : the scoring functions of AnswerEvaluator, MistralAPI and  *)
(*               AIModelAPI applied to enumerated questions, answers and   *)
(*               grader replies.                                           *)
(*  - SpecComp : a session driven by the component question view           *)
(*               (QuestionGenerator.display_question_with_enhanced_        *)
(*               features) and graded by AnswerEvaluator.                  *)
(*  - SpecBuild: the test builders (QuestionGenerator.create_custom_test   *)
(*               and the configure page of app.py) and the scoring of the  *)
(*               tests they build.                                         *)
(*  - SpecHist : the saved-results files of AnswerEvaluator                *)
(*               (save_test_results, get_test_history).                    *)
(*  - SpecGen  : question generation by MistralAPI with the placeholder    *)
(*               questions of FallbackQuestionGenerator.                   *)
(***************************************************************************)
EXTENDS Integers, Sequences, FiniteSets, TLC

VARIABLES
    session_state,  \* st.session_state of app.py: a dict, key -> value
    now,            \* time.time(), in seconds
    rendered,       \* index of the question whose widgets are on screen, -1 if none
    widget,         \* current value of the answer widget mcq_{i} / text_{i} on screen
    ev,             \* SpecEval, SpecBuild, SpecHist, SpecGen: the case at hand
    cs              \* SpecComp: the component-driven session

vars == <<session_state, now, rendered, widget, ev, cs>>

----------------------------------------------------------------------------
(* Bounds of the model *)

MaxNow == 300            \* the clock stops advancing here
MaxTimeLimit == 5        \* largest time limit (minutes) chosen on the configure page
MaxGraderScore == 3      \* largest score the external grader replies with

(* Program constants *)

MinTimeLimit == 5        \* st.number_input("Time Limit (minutes)", 5, 120, 30)
SecondsPerMinute == 60   \* config['time_limit'] * 60
TickStep == 150          \* granularity of the modelled clock, in seconds

----------------------------------------------------------------------------
(* Python dict helpers *)

Has(d, k) == k \in DOMAIN d
Get(d, k, default) == IF k \in DOMAIN d THEN d[k] ELSE default
Put(d, k, v) == [x \in (DOMAIN d) \cup {k} |-> IF x = k THEN v ELSE d[x]]
Del(d, ks) == [x \in (DOMAIN d) \ ks |-> d[x]]
EmptyDict == [x \in {} |-> 0]

Min(a, b) == IF a <= b THEN a ELSE b
Max(a, b) == IF a >= b THEN a ELSE b

----------------------------------------------------------------------------
(* app.py: Question dataclass.  options is the list of option labels       *)
(* (the keys of the options dict), empty for an open-ended question.       *)

Question(type, marks, options, correct_answer) ==
    [type |-> type, marks |-> marks, options |-> options,
     correct_answer |-> correct_answer]

McqA == Question("mcq", 1, <<"A", "B">>, "A")
McqB == Question("mcq", 1, <<"A", "B">>, "b")   \* the generator replied a lower-case label
Open2 == Question("2_mark", 2, <<>>, "None")
Open5 == Question("5_mark", 5, <<>>, "None")

\* Question lists AIModelAPI.generate_questions can leave in session_state.questions
Banks == { <<McqA, Open2>> }

ModelChoices == {"Mistral", "Gemini"}

----------------------------------------------------------------------------
(* Replies of the external grader (the "second LLM call").                 *)
(*   ok(s)        a 200 reply whose JSON carries the numeric score s       *)
(*   http_error   a reply with a status other than 200                     *)
(*   unparseable  a timeout, an exception, or content without usable JSON  *)

ReplyOk(s) == [kind |-> "ok", score |-> s]
ReplyHttpError == [kind |-> "http_error", score |-> 0]
ReplyUnparseable == [kind |-> "unparseable", score |-> 0]
Replies == {ReplyOk(s) : s \in -1..MaxGraderScore} \cup {ReplyHttpError, ReplyUnparseable}
\* the replies met in the wizard's runs
\* a reply whose JSON parses but whose "score" is not a number ("2/2", null)
ReplyTextScore == [kind |-> "ok_text", score |-> 0]
AppReplies == {ReplyOk(MaxGraderScore), ReplyTextScore, ReplyHttpError, ReplyUnparseable}

(* AIModelAPI.evaluate_answer: an MCQ is compared with ==, an open-ended   *)
(* answer is graded by the external model chosen in the sidebar.           *)

evaluate_answer(question, user_answer, model_choice, reply) ==
    IF question.type = "mcq"
    THEN LET correct == (user_answer = question.correct_answer)
         IN [score |-> IF correct THEN question.marks ELSE 0,
             max_score |-> question.marks,
             feedback |-> IF correct THEN "Correct!" ELSE "Incorrect.",
             correct |-> correct]
    ELSE IF model_choice # "Gemini" /\ reply.kind = "http_error"
         THEN [score |-> 0, max_score |-> question.marks,
               feedback |-> "API error.", correct |-> FALSE]
         ELSE IF reply.kind = "ok"
              THEN [score |-> reply.score, max_score |-> question.marks,
                    feedback |-> "ai", suggestions |-> "ai",
                    correct |-> (reply.score = question.marks)]
         ELSE IF reply.kind = "ok_text"      \* eval_data.get("score", 0) is passed on as it is
              THEN [score |-> "text", max_score |-> question.marks,
                    feedback |-> "ai", suggestions |-> "ai", correct |-> FALSE]
              ELSE [score |-> question.marks \div 2, max_score |-> question.marks,
                    feedback |-> "Answer submitted successfully. Manual review may be needed.",
                    correct |-> FALSE]

NoAnswerEvaluation(question) ==
    [score |-> 0, max_score |-> question.marks,
     feedback |-> "No answer provided", correct |-> FALSE]

(* finish_test: the loop over enumerate(questions); acc carries results,   *)
(* total_score and max_score.  replies[i] is the grader's reply for the    *)
(* i-th question, used only when that question is open-ended and answered. *)

RECURSIVE FinishLoop(_, _, _, _, _, _)
FinishLoop(i, questions, answers, model_choice, replies, acc) ==
    IF i > Len(questions) THEN acc
    ELSE LET question == questions[i]
             user_answer == Get(answers, i - 1, "")
             evaluation == IF user_answer # ""
                           THEN evaluate_answer(question, user_answer, model_choice, replies[i])
                           ELSE NoAnswerEvaluation(question)
         IN IF user_answer # "" /\ question.type # "mcq" /\ replies[i].kind = "ok_text"
            THEN [acc EXCEPT !.raised = TRUE]    \* total_score += "..." raises TypeError
            ELSE FinishLoop(i + 1, questions, answers, model_choice, replies,
              [results |-> Append(acc.results,
                                  [question |-> question, user_answer |-> user_answer,
                                   evaluation |-> evaluation]),
               total_score |-> IF user_answer # "" THEN acc.total_score + evaluation.score
                               ELSE acc.total_score,
               max_score |-> acc.max_score + question.marks,
               raised |-> FALSE])

finish_test(s, replies) ==
    LET s1 == Put(s, "test_active", FALSE)
        acc == FinishLoop(1, s1.test_questions, s1.user_answers, s1.model_choice, replies,
                          [results |-> <<>>, total_score |-> 0, max_score |-> 0,
                           raised |-> FALSE])
    IN IF acc.raised THEN s1        \* the exception leaves the run: nothing else is stored
       ELSE Put(Put(Put(s1, "test_results", acc.results),
                    "final_score", acc.total_score),
                "max_possible_score", acc.max_score)

----------------------------------------------------------------------------
(* take_test_page.  A run of the page reads the clock t, the widgets on    *)
(* screen (rend: the question they belong to; wid.answer: the value of its *)
(* radio or text area; wid.hand: the transcription of the image held by    *)
(* its handwriting uploader, "" when it holds none) and the user's input:  *)
(*   edit    the new value of the radio / text area, or Keep               *)
(*   audio   the text AudioProcessor.create_audio_interface returns        *)
(*   hand    the new content of the handwriting uploader, or Keep          *)
(*   button  the navigation button clicked, or "none"                      *)
(* It yields the new session_state and the widgets left on screen.         *)

Keep == "<keep>"
NoInput == [edit |-> Keep, audio |-> "", hand |-> Keep, button |-> "none"]
NoWidget == [answer |-> "", hand |-> ""]
View(s, rend, wid) == [ss |-> s, rendered |-> rend, widget |-> wid]

PutAnswer(s, idx, answer) == Put(s, "user_answers", Put(s.user_answers, idx, answer))

\* The answer widget's value in this run: its default when it was not on
\* screen in the last run (st.radio selects the first option, st.text_area
\* shows value=user_answer), else what the user left in it.
WidgetValue(question, user_answer, onScreen, wid, edit) ==
    IF ~onScreen
    THEN IF question.type = "mcq" THEN Head(question.options) ELSE user_answer
    ELSE IF edit # Keep THEN edit ELSE wid.answer

\* The handwriting uploader keeps its file from run to run while on screen
HandValue(onScreen, wid, hand) ==
    IF hand # Keep THEN hand
    ELSE IF onScreen THEN wid.hand ELSE ""

\* Lines 1326-1393: the audio answer, then the radio or the text area, then
\* the handwriting image, each storing into user_answers[current_idx].
RecordAnswers(s, rend, wid, inp) ==
    LET current_idx == s.current_question
        question == s.test_questions[current_idx + 1]
        s1 == IF inp.audio # "" THEN PutAnswer(s, current_idx, inp.audio) ELSE s
        user_answer == Get(s1.user_answers, current_idx, "")
    IN IF question.type = "mcq"
       THEN IF question.options # <<>>
            THEN LET answer == WidgetValue(question, user_answer, rend = current_idx, wid, inp.edit)
                 IN View(IF answer # "" THEN PutAnswer(s1, current_idx, answer) ELSE s1,
                         current_idx, [answer |-> answer, hand |-> ""])
            ELSE View(s1, current_idx, NoWidget)
       ELSE LET answer == WidgetValue(question, user_answer, rend = current_idx, wid, inp.edit)
                handwriting_text == HandValue(rend = current_idx, wid, inp.hand)
                s2 == IF answer # "" THEN PutAnswer(s1, current_idx, answer) ELSE s1
                s3 == IF handwriting_text # "" THEN PutAnswer(s2, current_idx, handwriting_text)
                      ELSE s2
            IN View(s3, current_idx, [answer |-> answer, hand |-> handwriting_text])

TimeUp(s, t) ==
    LET elapsed_time == t - s.test_start_time
        remaining_time == (s.test_config.time_limit * SecondsPerMinute) - elapsed_time
    IN remaining_time <= 0

\* Previous / Next: the guard of the button and the new current_question.
CanPrevious(current_idx) == current_idx > 0
\* (mutant) Next is offered on the last question too
CanNext_OffByOne(current_idx, questions) == current_idx < Len(questions)
CanNext(current_idx, questions) == current_idx < Len(questions) - 1

\* st.rerun() after a move: the page runs again at once for the new
\* question, whose widgets are not on screen yet, with no input.
RerunTakeTest(s, t, replies) ==
    IF TimeUp(s, t) \/ s.current_question >= Len(s.test_questions)
    THEN View(finish_test(s, replies), -1, NoWidget)
    ELSE RecordAnswers(s, -1, NoWidget, NoInput)

\* (mutant) the answers of the run are stored before the timer is looked at
take_test_page_LateTimer(s, t, rend, wid, inp, replies) ==
    IF ~Has(s, "test_active") THEN View(s, -1, NoWidget)
    ELSE IF ~s.test_active THEN View(s, -1, NoWidget)
    ELSE IF ~Has(s, "test_questions") THEN View(s, -1, NoWidget)
    ELSE IF s.current_question >= Len(s.test_questions)
         THEN View(finish_test(s, replies), -1, NoWidget)
    ELSE LET current_idx == s.current_question
             v == RecordAnswers(s, rend, wid, inp)
         IN IF TimeUp(s, t) THEN View(finish_test(v.ss, replies), -1, NoWidget)
            ELSE IF CanPrevious(current_idx) /\ inp.button = "prev"
            THEN RerunTakeTest(Put(v.ss, "current_question", current_idx - 1), t, replies)
            ELSE IF CanNext(current_idx, s.test_questions) /\ inp.button = "next"
            THEN RerunTakeTest(Put(v.ss, "current_question", current_idx + 1), t, replies)
            ELSE IF inp.button = "finish"
            THEN View(finish_test(v.ss, replies), -1, NoWidget)
            ELSE v

\* (mutant) the page does not look at test_active
take_test_page_NoActiveCheck(s, t, rend, wid, inp, replies) ==
    IF ~Has(s, "test_questions") THEN View(s, -1, NoWidget)
    ELSE IF TimeUp(s, t) THEN View(finish_test(s, replies), -1, NoWidget)
    ELSE LET current_idx == s.current_question
             v == RecordAnswers(s, rend, wid, inp)
         IN IF CanPrevious(current_idx) /\ inp.button = "prev"
            THEN RerunTakeTest(Put(v.ss, "current_question", current_idx - 1), t, replies)
            ELSE IF CanNext(current_idx, s.test_questions) /\ inp.button = "next"
            THEN RerunTakeTest(Put(v.ss, "current_question", current_idx + 1), t, replies)
            ELSE IF inp.button = "finish"
            THEN View(finish_test(v.ss, replies), -1, NoWidget)
            ELSE v

take_test_page(s, t, rend, wid, inp, replies) ==
    IF ~Has(s, "test_active") THEN View(s, -1, NoWidget)          \* AttributeError: the run aborts
    ELSE IF ~s.test_active THEN View(s, -1, NoWidget)             \* "No active test"
    ELSE IF ~Has(s, "test_questions") THEN View(s, -1, NoWidget)  \* "Test configuration error"
    ELSE IF TimeUp(s, t) THEN View(finish_test(s, replies), -1, NoWidget)
    ELSE IF s.current_question >= Len(s.test_questions)
         THEN View(finish_test(s, replies), -1, NoWidget)
    ELSE LET current_idx == s.current_question
             v == RecordAnswers(s, rend, wid, inp)
         IN IF CanPrevious(current_idx) /\ inp.button = "prev"
            THEN RerunTakeTest(Put(v.ss, "current_question", current_idx - 1), t, replies)
            ELSE IF CanNext(current_idx, s.test_questions) /\ inp.button = "next"
            THEN RerunTakeTest(Put(v.ss, "current_question", current_idx + 1), t, replies)
            ELSE IF inp.button = "finish"
            THEN View(finish_test(v.ss, replies), -1, NoWidget)
            ELSE v

\* what the page tells the user when it returns before showing a question
\* ("none" when it goes on to the question); reading a key main() has not
\* set raises AttributeError, which Streamlit shows in place of the page
take_test_page_report(s) ==
    IF ~Has(s, "test_active") THEN "AttributeError: test_active"
    ELSE IF ~s.test_active THEN "warning: No active test"
    ELSE IF ~Has(s, "test_questions") THEN "error: Test configuration error"
    ELSE "none"

----------------------------------------------------------------------------
(* configure_test_page: the selection loop and the Start Test button.      *)

Range(f) == {f[i] : i \in DOMAIN f}
QTypes(bank) == {q.type : q \in Range(bank)}

\* [q for q in questions if q.type == q_type]
type_questions(bank, q_type) == SelectSeq(bank, LAMBDA q : q.type = q_type)

\* The orders list(set(...)) can enumerate the types in
TypeOrders(bank) ==
    {ord \in [1..Cardinality(QTypes(bank)) -> QTypes(bank)] : Range(ord) = QTypes(bank)}

\* (mutant) the sample is drawn with replacement (random.choices)
Samples_WithReplacement(tq, k, randomize) ==
    IF randomize
    THEN {[i \in 1..k |-> tq[pos[i]]] : pos \in [1..k -> 1..Len(tq)]}
    ELSE {SubSeq(tq, 1, k)}

\* random.sample(tq, k): k pairwise distinct positions of tq, in any order;
\* tq[:k] when randomize is off
Samples(tq, k, randomize) ==
    IF randomize
    THEN {[i \in 1..k |-> tq[pos[i]]] :
            pos \in {f \in [1..k -> 1..Len(tq)] : \A a, b \in 1..k : a # b => f[a] # f[b]}}
    ELSE {SubSeq(tq, 1, k)}

\* selected_questions after the loop over available_types: picks[ty] is the
\* list selected for type ty (empty when num_select is 0)
RECURSIVE SelectedQuestions(_, _, _)
SelectedQuestions(ord, picks, i) ==
    IF i > Len(ord) THEN <<>>
    ELSE picks[ord[i]] \o SelectedQuestions(ord, picks, i + 1)

RECURSIVE SumMarks(_, _)
SumMarks(qs, i) == IF i > Len(qs) THEN 0 ELSE qs[i].marks + SumMarks(qs, i + 1)

\* The choices the page offers for a bank: every type order, every
\* num_select in 0..len per type, every sample
Selections(bank, randomize) ==
    LET tys == QTypes(bank)
        PickSets == [ty \in tys |->
                       UNION {Samples(type_questions(bank, ty), k, randomize) :
                                k \in 0..Len(type_questions(bank, ty))}]
        AllPicks == {p \in [tys -> UNION {PickSets[ty] : ty \in tys}] :
                       \A ty \in tys : p[ty] \in PickSets[ty]}
    IN {SelectedQuestions(ord, p, 1) : ord \in TypeOrders(bank), p \in AllPicks}

start_test(s, t, selected_questions, time_limit) ==
    LET total_marks == SumMarks(selected_questions, 1)
        s1 == Put(s, "test_questions", selected_questions)
        s2 == Put(s1, "test_config", [time_limit |-> time_limit,
                                      total_marks |-> total_marks])
        s3 == Put(s2, "test_active", TRUE)
        s4 == Put(s3, "current_question", 0)
        s5 == Put(s4, "user_answers", EmptyDict)
    IN Put(s5, "test_start_time", t)

\* results_page, "Take New Test"
KeysToClear == {"test_results", "final_score", "max_possible_score",
                "test_questions", "test_config", "user_answers", "current_question"}

take_new_test(s) == Del(s, KeysToClear)

\* results_page: it returns at once without results; button is "new" for a
\* click on Take New Test, which exists only once the results are shown
results_page(s, button) ==
    IF ~Has(s, "test_results") THEN s          \* AttributeError: the run aborts
    ELSE IF s.test_results = <<>> THEN s       \* "No test results available"
    ELSE IF button = "new" THEN take_new_test(s)
    ELSE s

results_page_report(s) ==
    IF ~Has(s, "test_results") THEN "AttributeError: test_results"
    ELSE IF s.test_results = <<>> THEN "warning: No test results available"
    ELSE "none"

\* book_rag_app.py, main(): the keys are given their defaults before a page runs
book_rag_main(s) ==
    LET defaults == [questions |-> <<>>, test_active |-> FALSE, current_question |-> 0,
                     user_answers |-> EmptyDict, test_results |-> <<>>]
    IN [k \in DOMAIN s \cup DOMAIN defaults |-> IF k \in DOMAIN s THEN s[k] ELSE defaults[k]]

----------------------------------------------------------------------------
(* SpecApp: the wizard of app.py.  Every action is one run of the script:  *)
(* upload_and_generate_page: the text of the uploaded file is extracted,   *)
(* and Generate Questions replaces the stored bank with what the           *)
(* generator returned. A file is its extension and what it holds.          *)

UploadedFiles ==
    {[extension |-> e, content |-> c] :
        e \in {"pdf", "docx", "txt", "png"}, c \in {"", "unreadable", "chapter"}}

\* DocumentProcessor.process_uploaded_file: "" for an empty file, an
\* unsupported extension, and a PDF or DOCX no text is extracted from; a
\* TXT file always decodes (latin-1 at the latest)
process_uploaded_file(uploaded_file) ==
    IF uploaded_file.content = "" THEN ""
    ELSE IF uploaded_file.extension \in {"pdf", "docx"}
         THEN (IF uploaded_file.content = "chapter" THEN "chapter" ELSE "")
    ELSE IF uploaded_file.extension = "txt" THEN uploaded_file.content
    ELSE ""

\* the lists AIModelAPI.generate_questions may add up to ([] when it fails)
GeneratedBanks == Banks \cup {<<>>, <<McqB>>}

\* (mutant) the button is offered whatever was extracted
upload_and_generate_page_NoTextCheck(s, uploaded_file, click, all_questions) ==
    IF click THEN Put(s, "questions", all_questions) ELSE s

\* (mutant) a new bank ends the test that was built from the old one
upload_and_generate_page_ResetsTest(s, uploaded_file, click, all_questions) ==
    IF process_uploaded_file(uploaded_file) = "" \/ ~click THEN s
    ELSE Del(Put(s, "questions", all_questions), {"test_questions", "user_answers"})

upload_and_generate_page(s, uploaded_file, click, all_questions) ==
    IF process_uploaded_file(uploaded_file) = "" THEN s     \* "Failed to extract text"
    ELSE IF click THEN Put(s, "questions", all_questions)
    ELSE s

(* main() stores the sidebar's model choice, then the selected page runs.  *)

TextAnswers == {"", "x"}
AudioAnswers == {"v"}
HandAnswers == {"", "v"}

EvIdle == [phase |-> "idle"]
CsIdle == [phase |-> "idle"]

InitApp ==
    /\ session_state = [model_choice |-> "Mistral"]
    /\ now = 0
    /\ rendered = -1
    /\ widget = NoWidget
    /\ ev = EvIdle
    /\ cs = CsIdle

\* The question on screen, when one is
OnScreen == rendered # -1
ScreenQuestion == session_state.test_questions[rendered + 1]

ApplyView(v) ==
    /\ session_state' = v.ss
    /\ rendered' = v.rendered
    /\ widget' = v.widget
    /\ UNCHANGED <<now, ev, cs>>

\* The grader is called once per answered open-ended question of a run that
\* reaches finish_test; replies[i] is its reply for question i
Finishing(s, t, button) ==
    /\ Has(s, "test_active") /\ s.test_active /\ Has(s, "test_questions")
    /\ (TimeUp(s, t) \/ button = "finish")

RepliesFor(s, t, button) ==
    IF Finishing(s, t, button)
    THEN {r \in [1..Len(s.test_questions) -> AppReplies] :
            \A i \in 1..Len(s.test_questions) :
                s.test_questions[i].type = "mcq" => r[i] = ReplyUnparseable}
    ELSE {<<>>}

\* time.time() advances
Tick ==
    /\ now + TickStep <= MaxNow
    /\ now' = now + TickStep
    /\ UNCHANGED <<session_state, rendered, widget, ev, cs>>

\* Upload & Generate page: "Generate Questions" stores the generated list
GenerateQuestions ==
    \E uploaded_file \in UploadedFiles, bank \in Banks :
        /\ session_state' = upload_and_generate_page(session_state, uploaded_file, TRUE, bank)
        /\ rendered' = -1
        /\ widget' = NoWidget
        /\ UNCHANGED <<now, ev, cs>>

\* Configure page, "Start Test"
StartTest ==
    /\ Has(session_state, "questions")
    /\ session_state.questions # <<>>
    /\ \E randomize \in BOOLEAN, time_limit \in MinTimeLimit..MaxTimeLimit :
         \E selected_questions \in Selections(session_state.questions, randomize) :
            /\ selected_questions # <<>>
            /\ ApplyView(View(start_test(session_state, now, selected_questions, time_limit),
                              -1, NoWidget))

\* The runs of the take-test page the user can cause in the current state:
\* each fixes the widgets the run reads and the input it gets.
TakeRun(rend, wid, inp) == [rend |-> rend, wid |-> wid, inp |-> inp]

\* the page is selected in the sidebar (or reloaded): it runs with fresh widgets
OpenRuns == {TakeRun(-1, NoWidget, NoInput)}
\* the user changes the radio or the text area of the question on screen
EditRuns ==
    IF OnScreen
    THEN {TakeRun(rendered, widget, [NoInput EXCEPT !.edit = e]) :
            e \in (IF ScreenQuestion.type = "mcq"
                   THEN Range(ScreenQuestion.options) ELSE TextAnswers)}
    ELSE {}
\* a recorded or uploaded audio answer is converted to text
AudioRuns ==
    IF OnScreen
    THEN {TakeRun(rendered, widget, [NoInput EXCEPT !.audio = a]) : a \in AudioAnswers}
    ELSE {}
\* a handwriting image is uploaded (and transcribed) or removed
HandwritingRuns ==
    IF OnScreen /\ ScreenQuestion.type # "mcq"
    THEN {TakeRun(rendered, widget, [NoInput EXCEPT !.hand = h]) : h \in HandAnswers}
    ELSE {}
ButtonRuns(button) ==
    IF OnScreen
    THEN {TakeRun(rendered, widget, [NoInput EXCEPT !.button = button])}
    ELSE {}

\* what a run leaves: the View of take_test_page, for each reply of the grader
Outcomes(r) ==
    {take_test_page(session_state, now, r.rend, r.wid, r.inp, replies) :
        replies \in RepliesFor(session_state, now, r.inp.button)}

OpenTakeTest == \E r \in OpenRuns : \E v \in Outcomes(r) : ApplyView(v)
EditAnswer == \E r \in EditRuns : \E v \in Outcomes(r) : ApplyView(v)
AudioAnswer == \E r \in AudioRuns : \E v \in Outcomes(r) : ApplyView(v)
HandwritingAnswer == \E r \in HandwritingRuns : \E v \in Outcomes(r) : ApplyView(v)
Previous == \E r \in ButtonRuns("prev") : \E v \in Outcomes(r) : ApplyView(v)
NextQuestion == \E r \in ButtonRuns("next") : \E v \in Outcomes(r) : ApplyView(v)
FinishTest == \E r \in ButtonRuns("finish") : \E v \in Outcomes(r) : ApplyView(v)

\* Results page, "Take New Test"; the button exists once results are shown
TakeNewTest ==
    /\ Has(session_state, "test_results")
    /\ session_state.test_results # <<>>
    /\ ApplyView(View(results_page(session_state, "new"), -1, NoWidget))

\* Results page without a click
OpenResults ==
    ApplyView(View(results_page(session_state, "none"), -1, NoWidget))

NextApp ==
    \/ Tick
    \/ GenerateQuestions
    \/ StartTest
    \/ OpenTakeTest
    \/ EditAnswer
    \/ AudioAnswer
    \/ HandwritingAnswer
    \/ Previous
    \/ NextQuestion
    \/ FinishTest
    \/ TakeNewTest
    \/ OpenResults

SpecApp == InitApp /\ [][NextApp]_vars

----------------------------------------------------------------------------
(* Properties of the wizard (SpecApp) *)

Active == Has(session_state, "test_active") /\ session_state.test_active
InProgress == Active /\ Has(session_state, "test_questions")
Finished ==
    /\ Has(session_state, "test_active") /\ ~session_state.test_active
    /\ Has(session_state, "test_results") /\ session_state.test_results # <<>>
Elapsed == now - session_state.test_start_time
LimitSeconds == session_state.test_config.time_limit * SecondsPerMinute
LastIndex == Len(session_state.test_questions) - 1

\* every run of the take-test page possible in the current state
TakeRuns ==
    OpenRuns \cup EditRuns \cup AudioRuns \cup HandwritingRuns
    \cup ButtonRuns("prev") \cup ButtonRuns("next") \cup ButtonRuns("finish")
TakeOutcomes == UNION {Outcomes(r) : r \in TakeRuns}
\* the session a run of the results page leaves
ResultsOutcomes == {session_state, take_new_test(session_state)}

\* C1: once a test is started, current_question stays within
\* [0, number of test questions - 1] whatever Previous, Next and answer
\* actions are taken; while time remains, Previous at index 0 and Next at the
\* last index are not performed and leave the whole session unchanged.
C1_IndexInRange ==
    /\ Has(session_state, "current_question") /\ Has(session_state, "test_questions")
          => session_state.current_question \in 0..LastIndex
    /\ InProgress /\ OnScreen /\ Elapsed < LimitSeconds
          => /\ session_state.current_question = 0
                   => \A r \in ButtonRuns("prev") : \A v \in Outcomes(r) :
                         v.ss = session_state /\ v.rendered = rendered
             /\ session_state.current_question = LastIndex
                   => \A r \in ButtonRuns("next") : \A v \in Outcomes(r) :
                         v.ss = session_state /\ v.rendered = rendered

C1_Witness ==
    /\ InProgress /\ OnScreen /\ Elapsed < LimitSeconds
    /\ Len(session_state.test_questions) >= 2
    /\ session_state.current_question = LastIndex

\* C3: a run of the take-test page of a test in progress at a moment when
\* now - start >= time limit ends the test: it is no longer active, one result
\* per question is stored and no question is on screen.  For a time limit of
\* 0 the timer check succeeds at every moment from the start on.
C3_TimeoutEndsTest ==
    /\ InProgress /\ Elapsed >= LimitSeconds
          => \A v \in TakeOutcomes :
                /\ ~v.ss.test_active
                /\ v.rendered = -1
                /\ Has(v.ss, "test_results") /\ Has(v.ss, "final_score")
                /\ Len(v.ss.test_results) = Len(session_state.test_questions)
    /\ \A t \in now..MaxNow :
          TimeUp([test_start_time |-> now, test_config |-> [time_limit |-> 0]], t)

ResultKeys == {"user_answers", "test_results", "final_score", "max_possible_score"}

C5_Original ==
    Finished
       => \A ss \in {v.ss : v \in TakeOutcomes} \cup ResultsOutcomes :
             /\ ~ss.test_active
             /\ \A k \in ResultKeys : Has(ss, k) /\ ss[k] = session_state[k]

\* C5 as amended: after a test has been finished, no run of the take-test
\* page or of the results page makes it active again or alters a recorded
\* answer or result; the only change such a run makes is Take New Test
\* discarding the finished test's keys.  A test becomes active only by the
\* start action, which begins at index 0 with an empty answer map and the
\* start time set to the time of the action.
C5_FinishedStaysFinished ==
    /\ [](Finished
            => /\ \A v \in TakeOutcomes : v.ss = session_state
               /\ \A ss \in ResultsOutcomes :
                     /\ ~ss.test_active
                     /\ \A k \in ResultKeys : Has(ss, k) => ss[k] = session_state[k]
                     /\ ss = session_state \/ ss = Del(session_state, KeysToClear))
    /\ [][(~Active /\ Has(session_state', "test_active") /\ session_state'.test_active)
          => /\ session_state'.current_question = 0
             /\ session_state'.user_answers = EmptyDict
             /\ session_state'.test_start_time = now
             /\ StartTest]_vars

C5_Witness == Finished /\ session_state.user_answers # EmptyDict

C24_EmptyExtractionKeepsBank ==
    \A uploaded_file \in UploadedFiles :
        process_uploaded_file(uploaded_file) = "" =>
            \A click \in BOOLEAN, all_questions \in GeneratedBanks :
                upload_and_generate_page(session_state, uploaded_file, click,
                                         all_questions) = session_state
\* a bank is stored, and a test built from it is running
C24_Witness == InProgress /\ session_state.questions # <<>>

\* C25: Start Test puts the session in progress with current index 0, an
\* empty answer map and the start time set to the time of the click, and no
\* answer, result or score of an earlier test remains in the new session.
C25_StartResetsSession ==
    (Has(session_state, "questions") /\ session_state.questions # <<>>) =>
        \A randomize \in BOOLEAN, time_limit \in MinTimeLimit..MaxTimeLimit :
            \A selected_questions \in Selections(session_state.questions, randomize) \ {<<>>} :
                LET s == start_test(session_state, now, selected_questions, time_limit)
                IN /\ s.test_active /\ s.test_questions = selected_questions
                   /\ s.current_question = 0
                   /\ s.user_answers = EmptyDict
                   /\ s.test_start_time = now
                   /\ \A k \in {"test_results", "final_score", "max_possible_score"} :
                         ~Has(s, k)

\* C26: while the test is in progress, a value given for the question on
\* screen becomes the stored answer of that index, replacing any earlier
\* one (an emptied input included), and the current index and the answers of
\* all other indices stay as they were.
C26_RecordReplacesAnswer ==
    (InProgress /\ OnScreen /\ ~TimeUp(session_state, now)) =>
        \A r \in EditRuns :
            \A v \in Outcomes(r) :
                LET idx == session_state.current_question
                    before == session_state.user_answers
                    after == v.ss.user_answers
                IN /\ Get(after, idx, "") = r.inp.edit
                   /\ v.ss.current_question = idx
                   /\ DOMAIN after \ {idx} = DOMAIN before \ {idx}
                   /\ \A k \in DOMAIN before \ {idx} : after[k] = before[k]

\* C28: finishing a test always completes: whatever the grader does for each
\* answered open-ended question (a usable reply, an HTTP error status, an
\* exception, a reply without parseable JSON), the run that finishes the test
\* leaves it inactive with exactly one result per test question, in question
\* order.
C28_FinishAlwaysCompletes ==
    InProgress =>
        \A r \in TakeRuns :
            Finishing(session_state, now, r.inp.button) =>
                \A v \in Outcomes(r) :
                    /\ ~v.ss.test_active
                    /\ Has(v.ss, "test_results")
                    /\ Len(v.ss.test_results) = Len(session_state.test_questions)
                    /\ \A i \in 1..Len(session_state.test_questions) :
                          v.ss.test_results[i].question = session_state.test_questions[i]

\* C29: an answer is stored for an index only when the user supplies one:
\* a run of the take-test page that displays a question, or moves to another
\* one, without any choice or text given leaves the answer map as it was.
C29_NoAnswerWithoutInput ==
    (InProgress /\ ~TimeUp(session_state, now)) =>
        \A r \in OpenRuns \cup ButtonRuns("prev") \cup ButtonRuns("next") :
            \A v \in Outcomes(r) :
                v.ss.user_answers = session_state.user_answers

\* C27: replacing the question bank while a test is in progress leaves the
\* test's question list (with categories and mark values), its configuration
\* with the total marks, and its recorded answers unchanged.
C27_BankChangeKeepsTest ==
    InProgress =>
        \A uploaded_file \in UploadedFiles, all_questions \in GeneratedBanks :
            LET s == upload_and_generate_page(session_state, uploaded_file, TRUE,
                                              all_questions)
            IN /\ Has(s, "test_questions") /\ Has(s, "user_answers")
               /\ s.test_questions = session_state.test_questions
               /\ s.test_config = session_state.test_config
               /\ s.user_answers = session_state.user_answers
               /\ s.current_question = session_state.current_question
\* a running test with a recorded answer, whose bank can be replaced
C27_Witness ==
    /\ InProgress /\ session_state.user_answers # EmptyDict
    /\ \E uploaded_file \in UploadedFiles, all_questions \in GeneratedBanks :
          upload_and_generate_page(session_state, uploaded_file, TRUE,
                                   all_questions).questions # session_state.questions

----------------------------------------------------------------------------
(* The scoring functions.  An answer is a text; what the code asks of a    *)
(* text is whether it is empty, whether it is blank (strip() == ''), its   *)
(* upper-case form and its number of words (len(split())).                 *)

Blank == " "                 \* a text of white space only
Essay == "thirty words"      \* stands for an answer of EssayWords words
EssayWords == 30
McqLabels == {"A", "B", "a", "b"}

Upper(text) ==
    CASE text = "a" -> "A"
      [] text = "b" -> "B"
      [] OTHER -> text
IsBlank(text) == text = "" \/ text = Blank
WordCount(text) ==
    CASE text = "" -> 0
      [] text = Blank -> 0
      [] text = Essay -> EssayWords
      [] OTHER -> 1

\* config.py
SCORING == ("mcq" :> 1) @@ ("1_mark" :> 1) @@ ("2_mark" :> 2) @@ ("3_mark" :> 3)
           @@ ("5_mark" :> 5)

\* MistralAPI.generate_completion: the content of a 200 reply, None otherwise
generate_completion(reply) == IF reply.kind = "http_error" THEN "None" ELSE reply.kind

AnswerEvaluator_evaluate_mcq_answer(question, user_answer) ==
    LET correct_answer == Upper(question.correct_answer)
        is_correct == Upper(user_answer) = correct_answer
    IN [score |-> IF is_correct THEN 1 ELSE 0,
        max_score |-> 1,
        correct |-> is_correct,
        evaluation_type |-> "mcq",
        feedback |-> IF is_correct THEN "Correct!" ELSE "Incorrect."]

AnswerEvaluator_fallback_evaluation(user_answer, question_type) ==
    LET max_marks == Get(SCORING, question_type, 1)
        score == Min(max_marks, Max(0, WordCount(user_answer) \div 10))
    IN [score |-> score,
        max_score |-> max_marks,
        correct |-> (score = max_marks),
        evaluation_type |-> "fallback",
        feedback |-> "Automatic evaluation failed. Manual review recommended."]

AnswerEvaluator_evaluate_subjective_answer(user_answer, question_type, reply) ==
    LET max_marks == Get(SCORING, question_type, 1)
        response == generate_completion(reply)
    IN IF response = "ok"
       THEN LET score == Max(0, Min(reply.score, max_marks))
            IN [score |-> score,
                max_score |-> max_marks,
                correct |-> (score = max_marks),
                evaluation_type |-> "subjective",
                feedback |-> "ai"]
       ELSE AnswerEvaluator_fallback_evaluation(user_answer, question_type)

\* (mutant) an empty answer is not told apart from a wrong one
AnswerEvaluator_evaluate_answer_NoEmptyCheck(question, user_answer, question_type, is_skipped, reply) ==
    IF is_skipped
    THEN [score |-> 0,
          max_score |-> Get(SCORING, question_type, 1),
          correct |-> FALSE,
          feedback |-> "Question was skipped.",
          evaluation_type |-> "skipped"]
    ELSE IF question_type = "mcq"
    THEN AnswerEvaluator_evaluate_mcq_answer(question, user_answer)
    ELSE AnswerEvaluator_evaluate_subjective_answer(user_answer, question_type, reply)

AnswerEvaluator_evaluate_answer(question, user_answer, question_type, is_skipped, reply) ==
    IF is_skipped
    THEN [score |-> 0,
          max_score |-> Get(SCORING, question_type, 1),
          correct |-> FALSE,
          feedback |-> "Question was skipped.",
          evaluation_type |-> "skipped"]
    ELSE IF user_answer = "" \/ IsBlank(user_answer)
    THEN [score |-> 0,
          max_score |-> Get(SCORING, question_type, 1),
          correct |-> FALSE,
          feedback |-> "No answer provided.",
          evaluation_type |-> "no_answer"]
    ELSE IF question_type = "mcq"
    THEN AnswerEvaluator_evaluate_mcq_answer(question, user_answer)
    ELSE AnswerEvaluator_evaluate_subjective_answer(user_answer, question_type, reply)

\* utils/mistral_api.py
MistralAPI_evaluate_mcq_answer(question, user_answer) ==
    LET correct == Upper(user_answer) = Upper(question.correct_answer)
    IN [correct |-> correct,
        score |-> IF correct THEN 1 ELSE 0,
        max_score |-> 1,
        feedback |-> "explanation"]

MistralAPI_evaluate_subjective_answer(question, user_answer, reply) ==
    LET response == generate_completion(reply)
    IN IF response = "ok"
       THEN [score |-> reply.score,
             max_score |-> question.marks,
             correct |-> (reply.score = question.marks),
             feedback |-> "ai"]
       ELSE IF response = "unparseable"
       THEN [score |-> 0, max_score |-> question.marks, correct |-> FALSE,
             feedback |-> "Unable to evaluate answer automatically"]
       ELSE [score |-> 0, max_score |-> question.marks, correct |-> FALSE,
             feedback |-> "Evaluation failed"]

(* AnswerEvaluator.calculate_test_score and _calculate_analytics.  A       *)
(* percentage total / max * 100 is kept as the fraction num / den.         *)

Fraction(num, den) == [num |-> num, den |-> den]

RECURSIVE SumGet(_, _, _, _)
SumGet(results, key, default, i) ==
    IF i > Len(results) THEN 0
    ELSE Get(results[i], key, default) + SumGet(results, key, default, i + 1)

Indices(results) == 1..Len(results)
IsCorrect(r) == Get(r, "correct", FALSE)

\* (mutant) skipped results are left out of the per-type breakdown
calculate_analytics_SkippedNotTyped(results) ==
    LET eval_type(r) == Get(r, "evaluation_type", "unknown")
        of_type(t) == SelectSeq(results, LAMBDA r : eval_type(r) = t)
    IN [total_questions |-> Len(results),
        attempted |-> Cardinality({i \in Indices(results) :
                                     Get(results[i], "evaluation_type", "None") # "skipped"}),
        skipped |-> Cardinality({i \in Indices(results) :
                                   Get(results[i], "evaluation_type", "None") = "skipped"}),
        correct |-> Cardinality({i \in Indices(results) : IsCorrect(results[i])}),
        by_type |-> [t \in {eval_type(results[i]) : i \in Indices(results)} \ {"skipped"} |->
                       [total |-> Len(of_type(t)),
                        correct |-> Len(SelectSeq(of_type(t), IsCorrect)),
                        score |-> SumGet(of_type(t), "score", 0, 1),
                        max_score |-> SumGet(of_type(t), "max_score", 1, 1)]]]

calculate_analytics(results) ==
    LET eval_type(r) == Get(r, "evaluation_type", "unknown")
        of_type(t) == SelectSeq(results, LAMBDA r : eval_type(r) = t)
    IN [total_questions |-> Len(results),
        attempted |-> Cardinality({i \in Indices(results) :
                                     Get(results[i], "evaluation_type", "None") # "skipped"}),
        skipped |-> Cardinality({i \in Indices(results) :
                                   Get(results[i], "evaluation_type", "None") = "skipped"}),
        correct |-> Cardinality({i \in Indices(results) : IsCorrect(results[i])}),
        by_type |-> [t \in {eval_type(results[i]) : i \in Indices(results)} |->
                       [total |-> Len(of_type(t)),
                        correct |-> Len(SelectSeq(of_type(t), IsCorrect)),
                        score |-> SumGet(of_type(t), "score", 0, 1),
                        max_score |-> SumGet(of_type(t), "max_score", 1, 1)]]]

\* percentage >= bound, for a percentage kept as a fraction
AtLeast(percentage, bound) == percentage.num >= bound * percentage.den

\* AnswerEvaluator._get_grade
get_grade(percentage) ==
    IF AtLeast(percentage, 90) THEN "A+"
    ELSE IF AtLeast(percentage, 80) THEN "A"
    ELSE IF AtLeast(percentage, 70) THEN "B"
    ELSE IF AtLeast(percentage, 60) THEN "C"
    ELSE IF AtLeast(percentage, 50) THEN "D"
    ELSE "F"

\* app.py results_page: the grade shown next to the percentage
results_grade(percentage) ==
    IF AtLeast(percentage, 90) THEN "A"
    ELSE IF AtLeast(percentage, 80) THEN "B"
    ELSE IF AtLeast(percentage, 70) THEN "C"
    ELSE IF AtLeast(percentage, 60) THEN "D"
    ELSE "F"

\* (mutant) the max scores of skipped questions are left out of the total
calculate_test_score_SkippedLeftOut(results) ==
    LET counted == SelectSeq(results, LAMBDA r : Get(r, "evaluation_type", "None") # "skipped")
        total_score == SumGet(results, "score", 0, 1)
        total_max_score == SumGet(counted, "max_score", 1, 1)
    IN IF total_max_score = 0
       THEN [total_score |-> 0, total_max_score |-> 0, percentage |-> Fraction(0, 1),
             grade |-> "F"]
       ELSE [total_score |-> total_score,
             total_max_score |-> total_max_score,
             percentage |-> Fraction(total_score * 100, total_max_score),
             grade |-> get_grade(Fraction(total_score * 100, total_max_score)),
             analytics |-> calculate_analytics(results)]

calculate_test_score(results) ==
    LET total_score == SumGet(results, "score", 0, 1)
        total_max_score == SumGet(results, "max_score", 1, 1)
    IN IF total_max_score = 0
       THEN [total_score |-> 0, total_max_score |-> 0, percentage |-> Fraction(0, 1),
             grade |-> "F"]
       ELSE [total_score |-> total_score,
             total_max_score |-> total_max_score,
             percentage |-> Fraction(total_score * 100, total_max_score),
             grade |-> get_grade(Fraction(total_score * 100, total_max_score)),
             analytics |-> calculate_analytics(results)]

\* app.py results_page: percentage = (total_score / max_score) * 100 if max_score > 0 else 0
results_percentage(total_score, max_score) ==
    IF max_score > 0 THEN Fraction(total_score * 100, max_score) ELSE Fraction(0, 1)

----------------------------------------------------------------------------
(* SpecEval: the scoring functions applied to a case.  A case is a list of *)
(* items (question, answer, skipped flag, reply of the grader when it is   *)
(* asked about this answer); it is scored by AnswerEvaluator, by the       *)
(* wizard's finish_test and results page, or by MistralAPI.                *)

MaxResults == 3          \* longest list of results summarised

Item(question, user_answer, is_skipped, reply) ==
    [question |-> question, user_answer |-> user_answer,
     is_skipped |-> is_skipped, reply |-> reply]

Items ==
    {Item(q, a, sk, ReplyUnparseable) :
        q \in {McqA, McqB}, a \in McqLabels \cup {""}, sk \in BOOLEAN}
    \cup {Item(q, a, sk, r) :
        q \in {Open2, Open5}, a \in {"", Blank, "x", Essay}, sk \in BOOLEAN, r \in Replies}

\* the items the longer lists are made of
ListItems ==
    {Item(McqA, "a", FALSE, ReplyUnparseable),
     Item(McqA, "", TRUE, ReplyUnparseable),
     Item(McqA, "", FALSE, ReplyUnparseable),
     Item(Open2, "", FALSE, ReplyUnparseable),
     Item(Open2, "x", FALSE, ReplyOk(MaxGraderScore)),
     Item(Open5, Essay, FALSE, ReplyHttpError)}

Cases ==
    {<<it>> : it \in Items}
    \cup UNION {[1..n -> ListItems] : n \in 0..MaxResults}

InitEval ==
    /\ ev \in {[phase |-> "case", items |-> c] : c \in Cases}
    /\ session_state = EmptyDict
    /\ now = 0
    /\ rendered = -1
    /\ widget = NoWidget
    /\ cs = CsIdle

\* AnswerEvaluator: evaluate_answer on every item, then calculate_test_score
EvaluateComponent ==
    /\ ev.phase = "case"
    /\ LET items == ev.items
           results == [i \in 1..Len(items) |->
                         AnswerEvaluator_evaluate_answer(items[i].question, items[i].user_answer,
                                                         items[i].question.type,
                                                         items[i].is_skipped, items[i].reply)]
       IN ev' = [phase |-> "component", items |-> items, results |-> results,
                 summary |-> calculate_test_score(results)]
    /\ UNCHANGED <<session_state, now, rendered, widget, cs>>

\* The session of the wizard in which the case's answers have been given
\* (the wizard has no skip, and stores no empty answer)
AppSession(items, model_choice) ==
    [model_choice |-> model_choice,
     test_active |-> TRUE,
     test_questions |-> [i \in 1..Len(items) |-> items[i].question],
     user_answers |-> [k \in {i - 1 : i \in {j \in 1..Len(items) : items[j].user_answer # ""}}
                         |-> items[k + 1].user_answer],
     current_question |-> 0]

\* app.py: finish_test, then the totals the results page shows
EvaluateApp ==
    /\ ev.phase = "case"
    /\ \A i \in 1..Len(ev.items) : ~ev.items[i].is_skipped
    /\ \E model_choice \in ModelChoices :
         LET items == ev.items
             s == finish_test(AppSession(items, model_choice),
                              [i \in 1..Len(items) |-> items[i].reply])
         IN ev' = [phase |-> "app", items |-> items, model_choice |-> model_choice,
                   results |-> [i \in 1..Len(items) |-> s.test_results[i].evaluation],
                   summary |-> [total_score |-> s.final_score,
                                total_max_score |-> s.max_possible_score,
                                percentage |-> results_percentage(s.final_score,
                                                                  s.max_possible_score),
                                grade |-> results_grade(
                                             results_percentage(s.final_score,
                                                                s.max_possible_score))]]
    /\ UNCHANGED <<session_state, now, rendered, widget, cs>>

\* utils/mistral_api.py: evaluate_mcq_answer / evaluate_subjective_answer on every item
EvaluateMistral ==
    /\ ev.phase = "case"
    /\ \A i \in 1..Len(ev.items) : ~ev.items[i].is_skipped
    /\ LET items == ev.items
       IN ev' = [phase |-> "mistral", items |-> items,
                 results |-> [i \in 1..Len(items) |->
                     IF items[i].question.type = "mcq"
                     THEN MistralAPI_evaluate_mcq_answer(items[i].question, items[i].user_answer)
                     ELSE MistralAPI_evaluate_subjective_answer(items[i].question,
                                                                items[i].user_answer,
                                                                items[i].reply)]]
    /\ UNCHANGED <<session_state, now, rendered, widget, cs>>

\* the grader's replies to a second scoring of the same items: the completion
\* is requested again for every answered open-ended question (temperature
\* 0.7 in the component's client, 0.3 in app.py), so it is drawn afresh
AgainReplies(items) ==
    {r \in [1..Len(items) -> AppReplies \ {ReplyTextScore}] :
        \A i \in 1..Len(items) :
            items[i].question.type = "mcq" => r[i] = ReplyUnparseable}

\* AnswerEvaluator: the same questions and answers evaluated and summarised again
EvaluateComponentAgain ==
    /\ ev.phase = "component"
    /\ \E replies \in AgainReplies(ev.items) :
         LET items == ev.items
             results == [i \in 1..Len(items) |->
                           AnswerEvaluator_evaluate_answer(items[i].question,
                                                           items[i].user_answer,
                                                           items[i].question.type,
                                                           items[i].is_skipped, replies[i])]
         IN ev' = [phase |-> "component_again", items |-> items,
                   first |-> [results |-> ev.results, summary |-> ev.summary],
                   second |-> [results |-> results,
                               summary |-> calculate_test_score(results)],
                   answers_before |-> [i \in 1..Len(items) |-> items[i].user_answer],
                   answers_after |-> [i \in 1..Len(items) |-> items[i].user_answer]]
    /\ UNCHANGED <<session_state, now, rendered, widget, cs>>

\* app.py: finish_test run again on the session the first run left
EvaluateAppAgain ==
    /\ ev.phase = "app"
    /\ \E replies \in AgainReplies(ev.items) :
         LET items == ev.items
             s1 == finish_test(AppSession(items, ev.model_choice),
                               [i \in 1..Len(items) |-> items[i].reply])
             s2 == finish_test(s1, replies)
         IN ev' = [phase |-> "app_again", items |-> items,
                   first |-> [results |-> ev.results, summary |-> ev.summary],
                   second |-> [results |-> [i \in 1..Len(items) |->
                                              s2.test_results[i].evaluation],
                               summary |-> [total_score |-> s2.final_score,
                                            total_max_score |-> s2.max_possible_score,
                                            percentage |-> results_percentage(
                                                s2.final_score, s2.max_possible_score),
                                            grade |-> results_grade(results_percentage(
                                                s2.final_score, s2.max_possible_score))]],
                   answers_before |-> s1.user_answers,
                   answers_after |-> s2.user_answers]
    /\ UNCHANGED <<session_state, now, rendered, widget, cs>>

NextEval ==
    \/ EvaluateComponent
    \/ EvaluateApp
    \/ EvaluateMistral
    \/ EvaluateComponentAgain
    \/ EvaluateAppAgain

SpecEval == InitEval /\ [][NextEval]_vars

----------------------------------------------------------------------------
(* Properties of the scoring functions (SpecEval) *)

Scored == ev.phase \in {"component", "app", "mistral"}
Summarised == ev.phase \in {"component", "app"}
ScoredIndices == IF Scored THEN 1..Len(ev.items) ELSE {}
\* item i is an answered question handed to the evaluator
Answered(i) == ~ev.items[i].is_skipped /\ ev.items[i].user_answer # ""
IsMcq(i) == ev.items[i].question.type = "mcq"

\* C6: for a multiple-choice question and a submitted non-empty label, every
\* evaluator awards the question's mark value when the label equals the
\* stored correct-answer label ignoring letter case, and 0 otherwise.
C6_McqCaseInsensitive ==
    \A i \in ScoredIndices :
        IsMcq(i) /\ Answered(i)
           => ev.results[i].score =
                 IF Upper(ev.items[i].user_answer) = Upper(ev.items[i].question.correct_answer)
                 THEN ev.items[i].question.marks ELSE 0

\* C7: every per-question result has 0 <= score <= max_score, whatever
\* score the grader replies with.
C7_ScoreWithinBounds ==
    \A i \in ScoredIndices :
        /\ 0 <= ev.results[i].score
        /\ ev.results[i].score <= ev.results[i].max_score

\* C8: when the grading call for an answered open-ended question of mark
\* value m fails or returns unparseable content, the result has score
\* floor(m/2) and an evaluation-type tag other than the AI-graded one.
C8_FallbackHalfMarks ==
    \A i \in ScoredIndices :
        /\ ~IsMcq(i) /\ Answered(i) /\ ~IsBlank(ev.items[i].user_answer)
        /\ ev.items[i].reply.kind # "ok"
        => /\ ev.results[i].score = ev.items[i].question.marks \div 2
           /\ Has(ev.results[i], "evaluation_type")
           /\ ev.results[i].evaluation_type # "subjective"

RECURSIVE SumOver(_, _)
SumOver(S, f) ==
    IF S = {} THEN 0
    ELSE LET i == CHOOSE x \in S : TRUE IN f[i] + SumOver(S \ {i}, f)

\* item i was skipped, or was left without an answer
Unattempted(i) == ev.items[i].is_skipped \/ IsBlank(ev.items[i].user_answer)

\* C9: a skipped question and an unanswered one each score 0 with a fixed
\* feedback string, are both left out of the summary's attempted count, and
\* both add their mark value to the summary's total max score.
C9_SkippedAndUnansweredAlike ==
    ev.phase = "component"
       => /\ \A i \in ScoredIndices :
                Unattempted(i)
                   => /\ ev.results[i].score = 0
                      /\ ev.results[i].feedback
                            = IF ev.items[i].is_skipped THEN "Question was skipped."
                              ELSE "No answer provided."
          /\ ev.summary.total_max_score
                = SumOver(ScoredIndices, [i \in ScoredIndices |-> ev.items[i].question.marks])
          /\ Has(ev.summary, "analytics")
                => ev.summary.analytics.attempted
                      = Cardinality({i \in ScoredIndices : ~Unattempted(i)})

\* C10: the summary's total score is the sum of the per-question scores, its
\* total max score the sum of the per-question max scores, and its
\* percentage total score / total max score x 100, 0 when the total max
\* score is 0.
C10_SummaryTotals ==
    Summarised
       => LET total == SumOver(ScoredIndices, [i \in ScoredIndices |-> ev.results[i].score])
              total_max == SumOver(ScoredIndices,
                                   [i \in ScoredIndices |-> ev.results[i].max_score])
              percentage == ev.summary.percentage
          IN /\ ev.summary.total_score = total
             /\ ev.summary.total_max_score = total_max
             /\ percentage.den > 0
             /\ IF total_max = 0 THEN percentage.num = 0
                ELSE percentage.num * total_max = total * 100 * percentage.den

C10_Witness ==
    /\ ev.phase = "component"
    /\ Len(ev.items) >= 2
    /\ \E i \in ScoredIndices : ev.items[i].is_skipped
    /\ ev.summary.total_score > 0
    /\ ev.summary.total_score < ev.summary.total_max_score

\* C11: the grade of a finished test follows from its percentage p by the
\* six bands A+ (p >= 90), A (80 <= p < 90), B (70 <= p < 80),
\* C (60 <= p < 70), D (50 <= p < 60), F (p < 50), wherever it is computed.
C11_SixGradeBands ==
    Summarised
       => LET p == ev.summary.percentage
          IN ev.summary.grade =
                CASE AtLeast(p, 90) -> "A+"
                  [] AtLeast(p, 80) /\ ~AtLeast(p, 90) -> "A"
                  [] AtLeast(p, 70) /\ ~AtLeast(p, 80) -> "B"
                  [] AtLeast(p, 60) /\ ~AtLeast(p, 70) -> "C"
                  [] AtLeast(p, 50) /\ ~AtLeast(p, 60) -> "D"
                  [] OTHER -> "F"

\* every item is a multiple-choice question answered with its correct label
AllMcqCorrect ==
    /\ Len(ev.items) > 0
    /\ \A i \in 1..Len(ev.items) :
          /\ IsMcq(i) /\ ~ev.items[i].is_skipped
          /\ ev.items[i].user_answer = ev.items[i].question.correct_answer

\* C12: a session whose questions are all multiple-choice and all answered
\* with the correct label has percentage 100 and grade A+.
C12_AllCorrectIsAPlus ==
    Summarised /\ AllMcqCorrect
       => /\ ev.summary.percentage.num = 100 * ev.summary.percentage.den
          /\ ev.summary.grade = "A+"

\* no item was answered and none was skipped
AllUntouched ==
    \A i \in 1..Len(ev.items) : ~ev.items[i].is_skipped /\ ev.items[i].user_answer = ""

\* C13: a session in which nothing was answered and nothing skipped has
\* total score 0, and every result has score 0 and one and the same fixed
\* "no answer provided" feedback.
C13_UntouchedScoresZero ==
    Summarised /\ AllUntouched
       => /\ ev.summary.total_score = 0
          /\ \A i \in ScoredIndices :
                /\ ev.results[i].score = 0
                /\ ev.results[i].feedback
                      = IF ev.phase = "app" THEN "No answer provided"
                        ELSE "No answer provided."

C13_Witness ==
    /\ Summarised /\ AllUntouched
    /\ \E i, j \in ScoredIndices : ev.items[i].question.type # ev.items[j].question.type

ScoredTwice == ev.phase \in {"component_again", "app_again"}

\* C15: scoring the same completed session twice yields identical per-question
\* results and identical summaries (total score, total max score, percentage,
\* grade, breakdown), and scoring leaves the answer map as it was.
C15_ScoringIdempotent ==
    ScoredTwice =>
        /\ ev.second.results = ev.first.results
        /\ ev.second.summary = ev.first.summary
        /\ ev.answers_after = ev.answers_before

\* C30: in every summary calculate_test_score computes over a non-empty list
\* of results, attempted + skipped is the number of questions, and the
\* per-type breakdown partitions the results: its question counts, correct
\* counts, scores and max scores, summed over the types, are the number of
\* questions, the overall correct count, the total score and the total max
\* score.
C30_BreakdownPartitions ==
    (ev.phase = "component" /\ Len(ev.results) > 0) =>
        /\ Has(ev.summary, "analytics")
        /\ LET a == ev.summary.analytics
               types == DOMAIN a.by_type
           IN /\ a.total_questions = Len(ev.results)
              /\ a.attempted + a.skipped = a.total_questions
              /\ SumOver(types, [t \in types |-> a.by_type[t].total]) = a.total_questions
              /\ SumOver(types, [t \in types |-> a.by_type[t].correct]) = a.correct
              /\ SumOver(types, [t \in types |-> a.by_type[t].score]) = ev.summary.total_score
              /\ SumOver(types, [t \in types |-> a.by_type[t].max_score])
                    = ev.summary.total_max_score
\* a summary over three results of three evaluation types, one of them
\* skipped and one correct
C30_Witness ==
    /\ ev.phase = "component" /\ Len(ev.results) = 3
    /\ Cardinality(DOMAIN ev.summary.analytics.by_type) = 3
    /\ ev.summary.analytics.skipped = 1
    /\ ev.summary.analytics.correct >= 1

----------------------------------------------------------------------------
(* QuestionGenerator.display_question_with_enhanced_features: one run of   *)
(* the component's question view.  It reads the clock t, the voice answer  *)
(* of the audio controls, the value typed of the radio or text area and    *)
(* the button clicked, and returns the pair (answer, skipped); Finish also *)
(* sets st.session_state['force_finish'].                                  *)

None == "<None>"
Returned(answer, skipped, force_finish) ==
    [answer |-> answer, skipped |-> skipped, force_finish |-> force_finish]

get_user_answer(voice_answer, typed) == IF voice_answer # "" THEN voice_answer ELSE typed

\* (mutant) Skip hands the answer on screen over together with the flag
display_question_ReturnsSkippedAnswer(question_index, t, start_time, time_limit, voice_answer, typed, button) ==
    LET elapsed_time == t - start_time
        remaining_time == Max(0, (time_limit * SecondsPerMinute) - elapsed_time)
        user_answer == get_user_answer(voice_answer, typed)
    IN IF ~(remaining_time > 0) THEN Returned(None, TRUE, FALSE)
       ELSE IF question_index > 0 /\ button = "prev" THEN Returned(None, FALSE, FALSE)
       ELSE IF button = "skip" THEN Returned(user_answer, TRUE, FALSE)
       ELSE IF user_answer # "" /\ button = "submit" THEN Returned(user_answer, FALSE, FALSE)
       ELSE IF button = "finish" THEN Returned(None, TRUE, TRUE)
       ELSE Returned(user_answer, FALSE, FALSE)

display_question(question_index, t, start_time, time_limit, voice_answer, typed, button) ==
    LET elapsed_time == t - start_time
        remaining_time == Max(0, (time_limit * SecondsPerMinute) - elapsed_time)
        user_answer == get_user_answer(voice_answer, typed)
    IN IF ~(remaining_time > 0) THEN Returned(None, TRUE, FALSE)
       ELSE IF question_index > 0 /\ button = "prev" THEN Returned(None, FALSE, FALSE)
       ELSE IF button = "skip" THEN Returned(None, TRUE, FALSE)
       ELSE IF user_answer # "" /\ button = "submit" THEN Returned(user_answer, FALSE, FALSE)
       ELSE IF button = "finish" THEN Returned(None, TRUE, TRUE)
       ELSE Returned(user_answer, FALSE, FALSE)

----------------------------------------------------------------------------
(* The session that drives the view: the answer map, the set of skipped    *)
(* indices, the current index and the transitions recordAnswer, skip, goTo *)
(* and finish of the test-session state machine.  dropped keeps the        *)
(* indices whose answer a skip has removed.                                *)

recordAnswer(c, index, value) ==
    [c EXCEPT !.answers = Put(c.answers, index, value),
              !.skipped = c.skipped \ {index}]

skip(c, index) ==
    [c EXCEPT !.answers = Del(c.answers, {index}),
              !.skipped = c.skipped \cup {index},
              !.dropped = IF Has(c.answers, index) THEN c.dropped \cup {index}
                          ELSE c.dropped]

goTo(c, index) ==
    IF index \in 0..(Len(c.questions) - 1)
    THEN [c EXCEPT !.index = index]
    ELSE c

\* finish: every index is scored by AnswerEvaluator.evaluate_answer
score(c, reply) ==
    LET results == [i \in 1..Len(c.questions) |->
                      AnswerEvaluator_evaluate_answer(c.questions[i], Get(c.answers, i - 1, ""),
                                                      c.questions[i].type,
                                                      (i - 1) \in c.skipped, reply)]
    IN [c EXCEPT !.phase = "completed", !.results = results,
                 !.summary = calculate_test_score(results)]

\* one interaction: the timer is looked at, then the view's pair is taken
interact(c, t, voice_answer, typed, button, reply) ==
    LET out == display_question(c.index, t, c.start, c.time_limit, voice_answer, typed, button)
    IN IF t - c.start >= c.time_limit * SecondsPerMinute THEN score(c, reply)
       ELSE IF out.force_finish THEN score(c, reply)
       ELSE IF out.skipped THEN skip(c, c.index)
       ELSE IF out.answer # None /\ out.answer # "" THEN recordAnswer(c, c.index, out.answer)
       ELSE c

----------------------------------------------------------------------------
(* SpecComp: a session over the component view *)

MaxCompNow == 1800       \* the clock of the component session stops here
CompTickStep == 450      \* granularity of that clock, in seconds
CompTimeLimits == {15, 30}   \* st.slider("Time Limit (minutes):", 15..180, step 15)
CompQuestions == <<McqA, Open2>>
CompReplies == {ReplyOk(MaxGraderScore), ReplyUnparseable}
Buttons == {"none", "prev", "skip", "submit", "finish"}

InitComp ==
    /\ cs = CsIdle
    /\ now = 0
    /\ session_state = EmptyDict
    /\ rendered = -1
    /\ widget = NoWidget
    /\ ev = EvIdle

CompRunning == cs.phase = "running"
\* what the answer widget of the question on screen can hold
TypedValues(c) ==
    LET question == c.questions[c.index + 1]
    IN IF question.type = "mcq" THEN Range(question.options) ELSE TextAnswers
\* the inputs a run of the view can get: a button that is on screen, at most
\* one click
ViewInputs(c) ==
    {[voice |-> v, typed |-> ty, button |-> b] :
        v \in {""} \cup AudioAnswers, ty \in TypedValues(c), b \in Buttons}
InputsOf(c, button) ==
    {inp \in ViewInputs(c) :
        /\ inp.button = button
        /\ button = "prev" => c.index > 0
        /\ button = "submit" => get_user_answer(inp.voice, inp.typed) # ""}

CompTick ==
    /\ now + CompTickStep <= MaxCompNow
    /\ now' = now + CompTickStep
    /\ UNCHANGED <<session_state, rendered, widget, ev, cs>>

\* the session is created and the clock started
CompStart ==
    /\ cs.phase = "idle"
    /\ \E time_limit \in CompTimeLimits :
         cs' = [phase |-> "running", questions |-> CompQuestions, index |-> 0,
                answers |-> EmptyDict, skipped |-> {}, start |-> now,
                time_limit |-> time_limit, results |-> <<>>,
                summary |-> calculate_test_score(<<>>), dropped |-> {}]
    /\ UNCHANGED <<session_state, now, rendered, widget, ev>>

\* the sessions an interaction with the given button can leave
InteractOutcomes(button) ==
    IF CompRunning
    THEN {interact(cs, now, inp.voice, inp.typed, inp.button, reply) :
            inp \in InputsOf(cs, button), reply \in CompReplies}
    ELSE {}
CompApply(c) == cs' = c /\ UNCHANGED <<session_state, now, rendered, widget, ev>>

CompDisplay == \E c \in InteractOutcomes("none") : CompApply(c)
CompPrevious == \E c \in InteractOutcomes("prev") : CompApply(c)
CompSkip == \E c \in InteractOutcomes("skip") : CompApply(c)
CompSubmit == \E c \in InteractOutcomes("submit") : CompApply(c)
CompFinish == \E c \in InteractOutcomes("finish") : CompApply(c)

\* navigation to another index
CompGoTo ==
    /\ CompRunning
    /\ now - cs.start < cs.time_limit * SecondsPerMinute
    /\ \E index \in -1..Len(cs.questions) : cs' = goTo(cs, index)
    /\ UNCHANGED <<session_state, now, rendered, widget, ev>>

NextComp ==
    \/ CompTick
    \/ CompStart
    \/ CompDisplay
    \/ CompPrevious
    \/ CompSkip
    \/ CompSubmit
    \/ CompFinish
    \/ CompGoTo

SpecComp == InitComp /\ [][NextComp]_vars

----------------------------------------------------------------------------
(* Properties of the component session (SpecComp) *)

CompStarted == cs.phase \in {"running", "completed"}
CompTimeLeft == CompRunning /\ now - cs.start < cs.time_limit * SecondsPerMinute
\* every pair the view can return in the current state
ViewReturns ==
    IF CompRunning
    THEN {display_question(cs.index, now, cs.start, cs.time_limit,
                           inp.voice, inp.typed, inp.button) : inp \in ViewInputs(cs)}
    ELSE {}

----------------------------------------------------------------------------
(* The test builders: QuestionGenerator.create_custom_test and the         *)
(* question selection of app.py's configure page.                          *)

MaxExcess == 1           \* how far a requested count may exceed the available questions

McqC == Question("mcq", 1, <<"A", "B", "C", "D">>, "C")
Open2b == Question("2_mark", 2, <<>>, "sample")

\* the generated questions by type, and as the flat list of app.py
BuildBank == ("mcq" :> <<McqA, McqB, McqC>>) @@ ("2_mark" :> <<Open2, Open2b>>)
BuildTypes == <<"mcq", "2_mark">>
FlatBank == BuildBank["mcq"] \o BuildBank["2_mark"]

\* available_questions[:count] of one type, empty when the type is left out
SelectedOfType(questions, question_counts, question_type) ==
    IF question_counts[question_type] > 0 /\ Has(questions, question_type)
    THEN SubSeq(questions[question_type], 1,
                Min(question_counts[question_type], Len(questions[question_type])))
    ELSE <<>>

\* the loop of create_custom_test over question_counts, from type number i on
RECURSIVE CustomTestQuestions(_, _, _, _)
CustomTestQuestions(questions, types, question_counts, i) ==
    IF i > Len(types) THEN <<>>
    ELSE LET selected_questions == SelectedOfType(questions, question_counts, types[i])
         IN [k \in 1..Len(selected_questions) |->
                [question |-> selected_questions[k], type |-> types[i],
                 marks |-> Get(SCORING, types[i], 1)]]
            \o CustomTestQuestions(questions, types, question_counts, i + 1)

\* (mutant) the slice stops one question early
create_custom_test_OffByOne(questions, types, test_config) ==
    LET counts == [ty \in Range(types) |-> test_config.question_counts[ty] - 1]
        selected(ty) == SelectedOfType(questions, counts, ty)
    IN [time_limit |-> Get(test_config, "time_limit", 60),
        total_questions |-> SumOver(Range(types), [ty \in Range(types) |-> Len(selected(ty))]),
        total_marks |-> SumOver(Range(types), [ty \in Range(types) |->
                                   Len(selected(ty)) * Get(SCORING, ty, 1)]),
        questions |-> CustomTestQuestions(questions, types, counts, 1)]

\* (mutant) the marks are taken from the requested count, not from the selection
create_custom_test_MarksFromCount(questions, types, test_config) ==
    LET counts == test_config.question_counts
        selected(ty) == SelectedOfType(questions, counts, ty)
    IN [time_limit |-> Get(test_config, "time_limit", 60),
        total_questions |-> SumOver(Range(types), [ty \in Range(types) |-> Len(selected(ty))]),
        total_marks |-> SumOver(Range(types), [ty \in Range(types) |->
                                   counts[ty] * Get(SCORING, ty, 1)]),
        questions |-> CustomTestQuestions(questions, types, counts, 1)]

\* types: the keys of test_config['question_counts'] in their order
create_custom_test(questions, types, test_config) ==
    LET counts == test_config.question_counts
        selected(ty) == SelectedOfType(questions, counts, ty)
    IN [time_limit |-> Get(test_config, "time_limit", 60),
        total_questions |-> SumOver(Range(types), [ty \in Range(types) |-> Len(selected(ty))]),
        total_marks |-> SumOver(Range(types), [ty \in Range(types) |->
                                   Len(selected(ty)) * Get(SCORING, ty, 1)]),
        questions |-> CustomTestQuestions(questions, types, counts, 1)]

\* configure page: the selections possible when num_select[ty] is chosen for
\* every type (the sliders run from 0 to the number available)
SelectionsFor(bank, num_select, randomize) ==
    LET tys == QTypes(bank)
        PickSets == [ty \in tys |->
                       Samples(type_questions(bank, ty), num_select[ty], randomize)]
        AllPicks == {p \in [tys -> UNION {PickSets[ty] : ty \in tys}] :
                       \A ty \in tys : p[ty] \in PickSets[ty]}
    IN {SelectedQuestions(ord, p, 1) : ord \in TypeOrders(bank), p \in AllPicks}

----------------------------------------------------------------------------
(* SpecBuild: a request (the count wanted of every type, randomize) is     *)
(* served by create_custom_test or by the configure page; a test built by  *)
(* create_custom_test is then answered and scored by AnswerEvaluator.      *)

Requests ==
    {[question_counts |-> c, randomize |-> r] :
        c \in [Range(BuildTypes) ->
                 0..(Len(BuildBank["mcq"]) + MaxExcess)],
        r \in BOOLEAN}

InitBuild ==
    /\ ev \in {[phase |-> "request", request |-> req] : req \in Requests}
    /\ session_state = [model_choice |-> "Mistral", questions |-> FlatBank]
    /\ now = 0
    /\ rendered = -1
    /\ widget = NoWidget
    /\ cs = CsIdle

BuildComponent ==
    /\ ev.phase = "request"
    /\ ev' = [phase |-> "component_test", request |-> ev.request,
              test |-> create_custom_test(BuildBank, BuildTypes, ev.request)]
    /\ UNCHANGED <<session_state, now, rendered, widget, cs>>

\* configure page: the sliders allow 0..available; Start Test exists only
\* when something is selected
BuildApp ==
    /\ ev.phase = "request"
    /\ \A ty \in QTypes(session_state.questions) :
          ev.request.question_counts[ty] <= Len(type_questions(session_state.questions, ty))
    /\ \E selected_questions \in SelectionsFor(session_state.questions,
                                               ev.request.question_counts,
                                               ev.request.randomize) :
          /\ ev' = [phase |-> "app_test", request |-> ev.request,
                    selected |-> selected_questions]
          /\ session_state' = IF selected_questions # <<>>
                              THEN start_test(session_state, now, selected_questions,
                                              MinTimeLimit)
                              ELSE session_state
    /\ UNCHANGED <<now, rendered, widget, cs>>

\* what is given for a question of a built test: a label or text, or a skip
GivenFor(q) ==
    IF q.type = "mcq"
    THEN {[answer |-> a, skipped |-> FALSE] : a \in {Upper(q.question.correct_answer), "D"}}
    ELSE {[answer |-> "", skipped |-> sk] : sk \in BOOLEAN}

ScoreBuilt ==
    /\ ev.phase = "component_test"
    /\ \E given \in [1..Len(ev.test.questions) ->
                        UNION {GivenFor(ev.test.questions[i]) : i \in 1..Len(ev.test.questions)}] :
          /\ \A i \in 1..Len(ev.test.questions) : given[i] \in GivenFor(ev.test.questions[i])
          /\ LET results == [i \in 1..Len(ev.test.questions) |->
                    AnswerEvaluator_evaluate_answer(ev.test.questions[i].question,
                        given[i].answer, ev.test.questions[i].type, given[i].skipped,
                        ReplyUnparseable)]
             IN ev' = [phase |-> "scored", request |-> ev.request, test |-> ev.test,
                       given |-> given, results |-> results,
                       summary |-> calculate_test_score(results)]
    /\ UNCHANGED <<session_state, now, rendered, widget, cs>>

NextBuild ==
    \/ BuildComponent
    \/ BuildApp
    \/ ScoreBuilt

SpecBuild == InitBuild /\ [][NextBuild]_vars

----------------------------------------------------------------------------
(* Properties of the test builders (SpecBuild) *)

Built == ev.phase \in {"component_test", "scored"}
Available(ty) == Len(BuildBank[ty])
Wanted(ty) == ev.request.question_counts[ty]
CountsInRange == \A ty \in Range(BuildTypes) : Wanted(ty) <= Available(ty)
NoRepeats(qs) == \A i, j \in 1..Len(qs) : i # j => qs[i] # qs[j]
\* the questions of type ty in a test built by create_custom_test
BuiltOfType(ty) ==
    LET of_ty == SelectSeq(ev.test.questions, LAMBDA q : q.type = ty)
    IN [i \in 1..Len(of_ty) |-> of_ty[i].question]

\* C16: for counts within the available numbers, the builders select
\* exactly the requested count of every type: the first ones in bank order
\* when randomize is off, pairwise distinct ones of that type when it is on;
\* the test holds no question from outside the bank and none twice.
C16_SelectsRequestedCount ==
    /\ Built /\ CountsInRange
          => /\ \A ty \in Range(BuildTypes) :
                   BuiltOfType(ty) = SubSeq(BuildBank[ty], 1, Wanted(ty))
             /\ NoRepeats(ev.test.questions)
             /\ \A i \in 1..Len(ev.test.questions) :
                   ev.test.questions[i].question \in Range(FlatBank)
    /\ ev.phase = "app_test"
          => /\ \A ty \in Range(BuildTypes) :
                   LET sel == type_questions(ev.selected, ty)
                   IN /\ Len(sel) = Wanted(ty)
                      /\ NoRepeats(sel)
                      /\ Range(sel) \subseteq Range(BuildBank[ty])
                      /\ ~ev.request.randomize => sel = SubSeq(BuildBank[ty], 1, Wanted(ty))
             /\ NoRepeats(ev.selected)
             /\ Range(ev.selected) \subseteq Range(FlatBank)

\* a random selection that is not the first ones in bank order
C16_Witness ==
    /\ ev.phase = "app_test" /\ ev.request.randomize
    /\ Wanted("mcq") = 2
    /\ type_questions(ev.selected, "mcq") # SubSeq(BuildBank["mcq"], 1, 2)

\* C17: the built test's total marks is the sum of the fixed mark values of
\* its questions, and its total question count the length of its list.
C17_TotalMarks ==
    /\ Built
          => LET qs == ev.test.questions
             IN /\ ev.test.total_marks
                      = SumOver(1..Len(qs), [i \in 1..Len(qs) |-> SCORING[qs[i].type]])
                /\ \A i \in 1..Len(qs) : qs[i].marks = SCORING[qs[i].type]
                /\ ev.test.total_questions = Len(qs)
    /\ ev.phase = "app_test" /\ ev.selected # <<>>
          => /\ session_state.test_questions = ev.selected
             /\ session_state.test_config.total_marks
                   = SumOver(1..Len(ev.selected),
                             [i \in 1..Len(ev.selected) |-> SCORING[ev.selected[i].type]])

C17_Witness ==
    /\ ev.phase = "component_test"
    /\ \E ty \in Range(BuildTypes) : Wanted(ty) > Available(ty)
    /\ Len(ev.test.questions) >= 3

\* C18: a request asking for more questions of a type than are available,
\* or for no question at all, is rejected with an error and builds no test.
C18_InvalidRequestRejected ==
    /\ Built /\ (~CountsInRange \/ \A ty \in Range(BuildTypes) : Wanted(ty) = 0)
          => Has(ev.test, "error") /\ ~Has(ev.test, "questions")
    /\ ev.phase = "app_test" /\ ev.selected = <<>>
          => ~Has(session_state, "test_questions")

\* the request of the scenario: all 3 multiple-choice and both two-mark
\* questions, randomize off
ScenarioRequest ==
    /\ Wanted("mcq") = 3 /\ Wanted("2_mark") = 2
    /\ ~ev.request.randomize
\* its answers: A, B, D, and both open-ended questions skipped
ScenarioScored ==
    /\ ev.phase = "scored" /\ ScenarioRequest
    /\ Len(ev.given) = 5
    /\ [i \in 1..5 |-> ev.given[i].answer] = <<"A", "B", "D", "", "">>
    /\ [i \in 1..5 |-> ev.given[i].skipped] = <<FALSE, FALSE, FALSE, TRUE, TRUE>>
\* the figures of the scenario other than the attempted count; the
\* percentage is 28.6 to one decimal place
ScenarioFigures ==
    /\ ev.summary.total_score = 2
    /\ ev.summary.total_max_score = 7
    /\ 2855 * ev.summary.percentage.den <= 100 * ev.summary.percentage.num
    /\ 100 * ev.summary.percentage.num < 2865 * ev.summary.percentage.den
    /\ ev.summary.grade = "F"
    /\ ev.summary.analytics.skipped = 2

\* C14 as claimed: the scenario yields total score 2, total max score 7,
\* percentage about 28.6, grade F, attempted count 2 and skipped count 2.
C14_Original ==
    ScenarioScored => ScenarioFigures /\ ev.summary.analytics.attempted = 2

\* C14 as amended: the test built for the scenario has its 5 questions, and
\* the scenario yields total score 2, total max score 7, percentage about
\* 28.6, grade F, attempted count 3 (the three answered multiple-choice
\* questions) and skipped count 2.
C14_Scenario ==
    /\ Built /\ ScenarioRequest => Len(ev.test.questions) = 5
    /\ ScenarioScored => ScenarioFigures /\ ev.summary.analytics.attempted = 3

C14_Witness == ScenarioScored

----------------------------------------------------------------------------
(* The history of saved tests (AnswerEvaluator.save_test_results and       *)
(* get_test_history). A save writes one file named after the user and the  *)
(* time of day to the second; a query reads the files the pattern          *)
(* data/test_results_{user_name}_*.json matches and sorts their records by *)
(* timestamp, newest first. The clock counts ticks of 1/TicksPerSecond s.  *)

MaxSaves == 3            \* saves in one run
MaxHistNow == 3          \* the clock stops advancing here (ticks)
TicksPerSecond == 2      \* granularity of the modelled clock

Users == {"ann", "ann_b", "bob"}

\* glob: test_results_{file_user}_{timestamp}.json against the pattern
\* test_results_{user_name}_*.json
GlobMatches(user_name, file_user) ==
    file_user = user_name \/ (user_name = "ann" /\ file_user = "ann_b")

\* strftime("%Y%m%d_%H%M%S"): the time to the second
FileName(user_name, t) == <<user_name, t \div TicksPerSecond>>

\* open(filepath, 'w') creates the file or replaces its content
save_test_results(files, user_name, t, results) ==
    Put(files, FileName(user_name, t),
        [user_name |-> user_name, timestamp |-> t, results |-> results])

Descending(history) ==
    \A i, j \in 1..Len(history) : i < j => history[i].timestamp >= history[j].timestamp

\* the lists a query can return: glob fixes no order among the files, the
\* (stable) sort orders them by timestamp, newest first
get_test_history(files, user_name) ==
    LET matched == {f \in DOMAIN files : GlobMatches(user_name, f[1])}
    IN {history \in [1..Cardinality(matched) -> {files[f] : f \in matched}] :
          /\ \A f \in matched : \E i \in 1..Cardinality(matched) : history[i] = files[f]
          /\ Descending(history)}

InitHist ==
    /\ ev = [phase |-> "saved", files |-> EmptyDict, appended |-> <<>>]
    /\ session_state = EmptyDict
    /\ now = 0
    /\ rendered = -1
    /\ widget = NoWidget
    /\ cs = CsIdle

\* datetime.now() advances
HistTick ==
    /\ ev.phase = "saved"
    /\ now < MaxHistNow
    /\ now' = now + 1
    /\ UNCHANGED <<session_state, rendered, widget, ev, cs>>

\* a finished test is saved; results stands for the test's content
SaveResults ==
    /\ ev.phase = "saved"
    /\ Len(ev.appended) < MaxSaves
    /\ \E user_name \in Users :
         LET results == Len(ev.appended) + 1
         IN ev' = [phase |-> "saved",
                   files |-> save_test_results(ev.files, user_name, now, results),
                   appended |-> Append(ev.appended,
                                       [user_name |-> user_name, timestamp |-> now,
                                        results |-> results])]
    /\ UNCHANGED <<session_state, now, rendered, widget, cs>>

\* a user's history is asked for
GetHistory ==
    /\ ev.phase = "saved"
    /\ \E user_name \in Users :
         \E history \in get_test_history(ev.files, user_name) :
            ev' = [phase |-> "queried", files |-> ev.files, appended |-> ev.appended,
                   user_name |-> user_name, history |-> history]
    /\ UNCHANGED <<session_state, now, rendered, widget, cs>>

NextHist ==
    \/ HistTick
    \/ SaveResults
    \/ GetHistory

SpecHist == InitHist /\ [][NextHist]_vars

\* C20: the history returned for a user holds every record that was saved
\* for that user, ordered by timestamp, newest first.
C20_HistoryComplete ==
    ev.phase = "queried" =>
        /\ \A i \in 1..Len(ev.appended) :
              ev.appended[i].user_name = ev.user_name =>
                  \E j \in 1..Len(ev.history) : ev.history[j] = ev.appended[i]
        /\ Descending(ev.history)

\* C21: the history is append-only: after any sequence of saves, whatever
\* the time between them, every record saved earlier is still stored
\* unmodified, and a query for its user still returns it.
C21_AppendOnly ==
    \A i \in 1..Len(ev.appended) :
        /\ \E f \in DOMAIN ev.files : ev.files[f] = ev.appended[i]
        /\ (ev.phase = "queried" /\ ev.appended[i].user_name = ev.user_name) =>
              ev.appended[i] \in {ev.history[j] : j \in 1..Len(ev.history)}

\* C22: histories of different users are kept apart: a save for one user
\* never replaces a record of another (the file written for a record keeps
\* holding a record of the same user), and the history returned for a user
\* holds no record saved for another user.
C22_UsersApart ==
    /\ \A i \in 1..Len(ev.appended) :
          LET r == ev.appended[i]
          IN ev.files[FileName(r.user_name, r.timestamp)].user_name = r.user_name
    /\ ev.phase = "queried" =>
          \A j \in 1..Len(ev.history) : ev.history[j].user_name = ev.user_name

----------------------------------------------------------------------------
(* Question generation (MistralAPI.generate_mcq_questions and              *)
(* generate_subjective_questions) with its placeholder generator           *)
(* (FallbackQuestionGenerator). A question's text is kept as its leading   *)
(* words; a reply of the model that parses is kept as the number of        *)
(* questions its JSON array holds.                                         *)

MaxCount == 6            \* largest number of questions asked for
FallbackMcqCap == 5          \* range(min(num_questions, 5))
FallbackSubjectiveCap == 3   \* range(min(num_questions, 3))

GenReplies ==
    {[kind |-> "ok", items |-> n] : n \in 0..MaxCount}
    \cup {[kind |-> "unparseable", items |-> 0], [kind |-> "http_error", items |-> 0]}

\* correct[i] is random.choice(["A", "B", "C", "D"]) for question i
generate_sample_mcq_questions(num_questions, correct) ==
    [i \in 1..Min(num_questions, FallbackMcqCap) |->
        [question |-> "Sample MCQ Question", options |-> {"A", "B", "C", "D"},
         correct_answer |-> correct[i], explanation |-> "sample explanation"]]

generate_sample_subjective_questions(question_type, num_questions) ==
    LET marks == IF question_type \in DOMAIN SCORING \ {"mcq"} THEN SCORING[question_type] ELSE 1
    IN [i \in 1..Min(num_questions, FallbackSubjectiveCap) |->
          [question |-> "Sample n-mark question", marks |-> marks,
           expected_length |-> "length", key_points |-> 3, sample_answer |-> "Sample answer"]]

generate_mcq_questions(num_questions, reply, correct) ==
    IF generate_completion(reply) = "ok"
    THEN [i \in 1..reply.items |->
            [question |-> "generated", options |-> {"A", "B", "C", "D"},
             correct_answer |-> "A", explanation |-> "generated"]]
    ELSE generate_sample_mcq_questions(num_questions, correct)

generate_subjective_questions(question_type, num_questions, reply) ==
    IF generate_completion(reply) = "ok"
    THEN [i \in 1..reply.items |->
            [question |-> "generated", marks |-> SCORING[question_type],
             expected_length |-> "length", key_points |-> 3, sample_answer |-> "generated"]]
    ELSE generate_sample_subjective_questions(question_type, num_questions)

InitGen ==
    /\ ev \in {[phase |-> "request", question_type |-> ty, num_questions |-> n, reply |-> r] :
                 ty \in DOMAIN SCORING, n \in 1..MaxCount, r \in GenReplies}
    /\ session_state = EmptyDict
    /\ now = 0
    /\ rendered = -1
    /\ widget = NoWidget
    /\ cs = CsIdle

GenerateMcq ==
    /\ ev.phase = "request"
    /\ ev.question_type = "mcq"
    /\ \E correct \in [1..FallbackMcqCap -> {"A", "B", "C", "D"}] :
         ev' = [phase |-> "generated", question_type |-> ev.question_type,
                num_questions |-> ev.num_questions, reply |-> ev.reply,
                questions |-> generate_mcq_questions(ev.num_questions, ev.reply, correct)]
    /\ UNCHANGED <<session_state, now, rendered, widget, cs>>

GenerateSubjective ==
    /\ ev.phase = "request"
    /\ ev.question_type # "mcq"
    /\ ev' = [phase |-> "generated", question_type |-> ev.question_type,
              num_questions |-> ev.num_questions, reply |-> ev.reply,
              questions |-> generate_subjective_questions(ev.question_type,
                                                          ev.num_questions, ev.reply)]
    /\ UNCHANGED <<session_state, now, rendered, widget, cs>>

NextGen ==
    \/ GenerateMcq
    \/ GenerateSubjective

SpecGen == InitGen /\ [][NextGen]_vars

\* C23: when the generation call for a category fails or its reply cannot be
\* parsed, exactly the requested number of placeholder questions is returned,
\* each well-formed for the category (four options A-D and a correct label
\* among them, or the category's mark value) and marked as a sample.
C23_FallbackReturnsCount ==
    (ev.phase = "generated" /\ ev.reply.kind # "ok") =>
        /\ Len(ev.questions) = ev.num_questions
        /\ \A i \in 1..Len(ev.questions) :
              LET q == ev.questions[i]
              IN /\ q.question \in {"Sample MCQ Question", "Sample n-mark question"}
                 /\ IF ev.question_type = "mcq"
                    THEN q.options = {"A", "B", "C", "D"} /\ q.correct_answer \in q.options
                    ELSE q.marks = SCORING[ev.question_type]

====
